---- MODULE Spec2Model ----
(***************************************************************************)
(* GLES2_dbg debug server (opengl/libs/GLES2_dbg/src/server.cpp).          *)
(*                                                                         *)
(* The process owns two global descriptors (serverSock, clientSock), one   *)
(* mutex (static in Send) and one receive buffer (static in Receive).      *)
(* Threads of the process call StartDebugServer, StopDebugServer and       *)
(* MessageLoop; every system call of those functions is one step of the    *)
(* calling thread, so that the steps of different threads interleave the   *)
(* way the scheduler lets them.  The debugger at the other end of the      *)
(* connection is part of the environment (Peer... actions).  Both          *)
(* directions of the connection are byte streams: a frame is a 4-byte      *)
(* big-endian length followed by that many payload bytes.                  *)
(***************************************************************************)
EXTENDS Integers, Sequences, FiniteSets, TLC

(* ------------------------------ bounds --------------------------------- *)

\* Calls (StartDebugServer / StopDebugServer / MessageLoop) the thread that
\* uses the library alone makes.
MaxCalls == 2

\* Calls of MessageLoop each thread makes when all threads intercept calls.
MaxLoopCalls == 1

\* SETPROP and CONTINUE directives the debugger sends over one connection
\* (it may always send SKIP).
MaxDirectives == 3

\* Directives with an unrecognised function tag the debugger sends.
MaxBad == 1

(* --------------------------- program constants ------------------------- *)

\* glesv2debugger::Message_Function values used by server.cpp.  Every tag
\* below ACK names an intercepted GL entry point.
ACK == 10
CONTINUE == 12
SKIP == 13
SETPROP == 14

\* glesv2debugger::Message_Type values.
BeforeCall == 0
AfterCall == 1
Response == 2

\* glesv2debugger::Message_Prop values.
Prop_Capture == 0
Prop_TimeMode == 1

\* utils/Timers.h clock ids: the initial value of timeMode.
SYSTEM_TIME_THREAD == 3

\* sizeof(len): the width of the length header.
HdrLen == 4

\* The descriptor value that stands for "no socket".
NoSock == -1

\* The threads of the instrumented process, by pthread_self().
Threads == {1, 2}

\* Intercepted GL entry points a caller passes to MessageLoop: 0 is one
\* whose functionCall has nothing to hand back, 1 one that returns data.
GLFuncs == {0, 1}

\* Values functionCall may return for entry point fn (0 is the null pointer).
Ptrs(fn) == IF fn = 0 THEN {0} ELSE {0, 7}

\* Descriptor numbers socket() and accept() may hand out.  0 is a legal
\* descriptor: a process whose stdin is closed gets it first.
FdPool == {0, 3, 4}

\* Function tags that are no directive, which a debugger may send as one:
\* the tag of a GL entry point, and ACK.
BadTags == {0, ACK}

\* Values a debugger puts into arg0 of a SETPROP directive.
Arg0s == {1}

VARIABLES
    serverSock,   \* global int serverSock
    clientSock,   \* global int clientSock
    timeMode,     \* global int timeMode
    capture,      \* global capture flag written by SetProp
    mutex,        \* Send's static mutex: 0 when free, else the holder
    buffer,       \* Receive's static buffer: the bytes it holds
    bufferSize,   \* Receive's static bufferSize
    fdState,      \* the kernel's view of each descriptor
    wireOut,      \* bytes written to the client socket, not yet read by the debugger
    wireIn,       \* bytes written by the debugger, not yet read by the process
    alive,        \* FALSE once exit(1) has run
    thread,       \* each thread's position and stack variables
    peer          \* the debugger: what it owes and what it has sent

globals == <<serverSock, clientSock, timeMode, capture, mutex, buffer,
             bufferSize, fdState, wireOut, wireIn, alive>>
vars    == <<globals, thread, peer>>

(* ----------------------------- wire codec ------------------------------ *)

\* A default-constructed (or Clear()ed) glesv2debugger::Message.
EmptyMessage ==
    [context_id |-> 0, function |-> 0, type |-> 0, expect_response |-> FALSE,
     prop |-> 0, arg0 |-> 0]

BoolByte(b) == IF b THEN 1 ELSE 0

\* msg.SerializeToString: the required fields in order, then the optional
\* prop/arg0 pair when the message is a SETPROP directive.
Serialize(m) ==
    <<m.context_id, m.function, m.type, BoolByte(m.expect_response)>>
      \o (IF m.function = SETPROP THEN <<m.prop, m.arg0>> ELSE <<>>)

ByteAt(b, i) == IF i <= Len(b) THEN b[i] ELSE 0

\* cmd.ParseFromArray(buffer, len): the fields the bytes supply, defaults for
\* the rest.
Parse(b) ==
    [context_id |-> ByteAt(b, 1), function |-> ByteAt(b, 2),
     type |-> ByteAt(b, 3), expect_response |-> (ByteAt(b, 4) = 1),
     prop |-> ByteAt(b, 5), arg0 |-> ByteAt(b, 6)]

\* htonl: the four bytes of an unsigned 32-bit value, most significant first.
Htonl(n) ==
    <<(n \div 16777216) % 256, (n \div 65536) % 256, (n \div 256) % 256, n % 256>>

\* ntohl of four bytes read from the stream.
Ntohl(b) == b[1] * 16777216 + b[2] * 65536 + b[3] * 256 + b[4]

\* One whole frame as the sender writes it.
Frame(m) == Htonl(Len(Serialize(m))) \o Serialize(m)

Take(s, n) == SubSeq(s, 1, n)
Drop(s, n) == SubSeq(s, n + 1, Len(s))

Max(a, b) == IF a >= b THEN a ELSE b
Min(a, b) == IF a <= b THEN a ELSE b

(* ------------------------------ the kernel ----------------------------- *)

\* Whether descriptor fd is open in state k: "sock" (created), "bound",
\* "listen", "conn" (connected), "reset" (connected, and the connection
\* has broken) or "eof" (connected, and the debugger has closed its end:
\* what it wrote before can still be read).
FdIs(fd, k) == fd \in FdPool /\ fdState[fd] = k

\* What socket() or accept() may return as a new descriptor: the lowest free
\* one.  Descriptor 0 is free when the rest of the process has closed stdin,
\* which it may do at any time; so 0 may or may not be the lowest free one.
NewFds ==
    LET free == {f \in FdPool : fdState[f] = "free"}
        pos  == {f \in free : f > 0}
    IN  (free \cap {0}) \cup {f \in pos : \A g \in pos : f <= g}

\* Port 5039 is taken while some socket of the process is bound to it.
PortTaken == \E f \in FdPool : fdState[f] \in {"bound", "listen"}

\* close(fd): releases the descriptor if it is open; EBADF otherwise.
Close(fd) == IF fd \in FdPool THEN [fdState EXCEPT ![fd] = "free"] ELSE fdState

(* ------------------------------ threads -------------------------------- *)

\* A thread that is in none of the library's functions.  left counts the
\* calls it will still make.  ev lists what it did in its last call, in
\* order, as pairs: <<"start", 0>>, <<"stop", 0>> or <<"loop", expectResponse>>
\* for the call itself, <<"send", type>> for a frame written, <<"recv", 0>>
\* for a call of Receive, <<"dir", function>> for a directive the switch
\* took, <<"invoke", pointer>> for a run of functionCall, <<"setprop", 0>>
\* for a property SetProp wrote, <<"ret", pointer>> for MessageLoop's return.
IdleThread(n, e) ==
    [pc |-> "idle", left |-> n, ev |-> e,
     sret |-> "none", rret |-> "none", stopRet |-> "none", dieMsg |-> "",
     msg |-> EmptyMessage, cmd |-> EmptyMessage, ret |-> 0,
     expectResponse |-> FALSE, function |-> 0, len |-> 0]

\* The thread returns from the library to its caller: its stack variables
\* are gone.
ReturnToCaller(th) == IdleThread(th.left, th.ev)

Log(th, events) == [th EXCEPT !.ev = @ \o events]

(* ------------------------------ the debugger --------------------------- *)

\* The debugger on the connection thread t accepted: owed lists the contexts
\* it owes a directive, in order; read says whether it has read a frame yet
\* and first is the first message it read; sent counts the SETPROP and
\* CONTINUE directives it has sent, bad the tags that are no directive.
\* conns counts the connections the process has accepted so far.
NewPeer(t, n) ==
    [owed |-> <<>>, sent |-> 0, bad |-> 0,
     by |-> t, read |-> FALSE, first |-> EmptyMessage, conns |-> n]

(* ------------------------------- Init ---------------------------------- *)

\* The thread that uses the library when one thread does.
Main == CHOOSE t \in Threads : \A u \in Threads : t <= u

\* The process before any call of the library; one thread will use it.
Init ==
    /\ serverSock = NoSock
    /\ clientSock = NoSock
    /\ timeMode = SYSTEM_TIME_THREAD
    /\ capture = 0
    /\ mutex = 0
    /\ buffer = <<>>
    /\ bufferSize = 0
    /\ fdState = [f \in FdPool |-> "free"]
    /\ wireOut = <<>>
    /\ wireIn = <<>>
    /\ alive = TRUE
    /\ thread = [t \in Threads |->
                   IdleThread(IF t = Main THEN MaxCalls ELSE 0, <<>>)]
    /\ peer = NewPeer(Main, 0)

(* -------------------------------- Die ---------------------------------- *)

\* Die(msg): logs, then calls StopDebugServer, then exit(1).  The thread
\* enters StopDebugServer; exit(1) is the step Die_exit.
Die(th, m) == [th EXCEPT !.pc = "Stop_client", !.stopRet = "exit", !.dieMsg = m]

\* ASSERT(0) / assert(0): the macro of header.h.  A failed assertion is the
\* fatal path: the session is torn down and the process terminated.
AssertFail(th) == Die(th, "ASSERT")

Die_exit(t) ==
    /\ alive /\ thread[t].pc = "Die_exit"
    /\ alive' = FALSE
    /\ UNCHANGED <<serverSock, clientSock, timeMode, capture, mutex, buffer,
                   bufferSize, fdState, wireOut, wireIn, thread, peer>>

(* -------------------------- StopDebugServer ---------------------------- *)

\* A caller of the library calls StopDebugServer().
StopDebugServer(t) ==
    /\ alive /\ thread[t].pc = "idle" /\ thread[t].left > 0
    /\ thread' = [thread EXCEPT ![t] =
                    [@ EXCEPT !.pc = "Stop_client", !.stopRet = "return",
                              !.left = @ - 1, !.ev = <<<<"stop", 0>>>>]]
    /\ UNCHANGED <<globals, peer>>

\* if (clientSock > 0) { close(clientSock); clientSock = -1; }
Stop_client(t) ==
    /\ alive /\ thread[t].pc = "Stop_client"
    /\ IF clientSock > 0
         THEN /\ fdState' = Close(clientSock)
              /\ clientSock' = NoSock
         ELSE UNCHANGED <<fdState, clientSock>>
    /\ thread' = [thread EXCEPT ![t].pc = "Stop_server"]
    /\ UNCHANGED <<serverSock, timeMode, capture, mutex, buffer, bufferSize,
                   wireOut, wireIn, alive, peer>>

\* if (serverSock > 0) { close(serverSock); serverSock = -1; }, then the
\* return to Die (which goes on to exit) or to the caller.
Stop_server(t) ==
    /\ alive /\ thread[t].pc = "Stop_server"
    /\ IF serverSock > 0
         THEN /\ fdState' = Close(serverSock)
              /\ serverSock' = NoSock
         ELSE UNCHANGED <<fdState, serverSock>>
    /\ thread' = [thread EXCEPT ![t] =
                    IF @.stopRet = "exit" THEN [@ EXCEPT !.pc = "Die_exit"]
                                          ELSE ReturnToCaller(@)]
    /\ UNCHANGED <<clientSock, timeMode, capture, mutex, buffer, bufferSize,
                   wireOut, wireIn, alive, peer>>

(* -------------------------- StartDebugServer --------------------------- *)

\* A guard that takes descriptor 0 for no socket: what StartDebugServer
\* does not test.  The already-started property must tell it from
\* AlreadyStarted.
AlreadyStartedStrict == serverSock > 0

\* if (serverSock >= 0) return;
AlreadyStarted == serverSock >= 0

\* A caller calls StartDebugServer(): the already-started guard.
StartDebugServer(t) ==
    /\ alive /\ thread[t].pc = "idle" /\ thread[t].left > 0
    /\ thread' = [thread EXCEPT ![t] =
                    [@ EXCEPT !.pc = IF AlreadyStarted THEN "idle"
                                                        ELSE "Start_socket",
                              !.left = @ - 1, !.ev = <<<<"start", 0>>>>]]
    /\ UNCHANGED <<globals, peer>>

\* serverSock = socket(PF_INET, SOCK_STREAM, IPPROTO_TCP)
Start_socket(t) ==
    /\ alive /\ thread[t].pc = "Start_socket"
    /\ \E r \in NewFds \cup {NoSock} :
         /\ serverSock' = r
         /\ IF r < 0
              THEN /\ thread' = [thread EXCEPT ![t] =
                                   Die(@, "Failed to create socket")]
                   /\ UNCHANGED fdState
              ELSE /\ fdState' = [fdState EXCEPT ![r] = "sock"]
                   /\ thread' = [thread EXCEPT ![t].pc = "Start_bind"]
    /\ UNCHANGED <<clientSock, timeMode, capture, mutex, buffer, bufferSize,
                   wireOut, wireIn, alive, peer>>

\* bind(serverSock, ...): fails on a bad descriptor, on a socket that is
\* already bound, and when the port is in use (by this process or another).
Start_bind(t) ==
    /\ alive /\ thread[t].pc = "Start_bind"
    /\ \E inUseElsewhere \in BOOLEAN :
         IF FdIs(serverSock, "sock") /\ ~PortTaken /\ ~inUseElsewhere
           THEN /\ fdState' = [fdState EXCEPT ![serverSock] = "bound"]
                /\ thread' = [thread EXCEPT ![t].pc = "Start_listen"]
           ELSE /\ thread' = [thread EXCEPT ![t] =
                                Die(@, "Failed to bind the server socket")]
                /\ UNCHANGED fdState
    /\ UNCHANGED <<serverSock, clientSock, timeMode, capture, mutex, buffer,
                   bufferSize, wireOut, wireIn, alive, peer>>

\* listen(serverSock, 1)
Start_listen(t) ==
    /\ alive /\ thread[t].pc = "Start_listen"
    /\ IF FdIs(serverSock, "bound") \/ FdIs(serverSock, "listen")
         THEN /\ fdState' = [fdState EXCEPT ![serverSock] = "listen"]
              /\ thread' = [thread EXCEPT ![t].pc = "Start_accept"]
         ELSE /\ thread' = [thread EXCEPT ![t] =
                              Die(@, "Failed to listen on server socket")]
              /\ UNCHANGED fdState
    /\ UNCHANGED <<serverSock, clientSock, timeMode, capture, mutex, buffer,
                   bufferSize, wireOut, wireIn, alive, peer>>

\* A handshake message that asks for a reply: what StartDebugServer does not
\* build.  The handshake property must tell it from AckMessage.
AckExpectingReply ==
    [EmptyMessage EXCEPT !.context_id = 0, !.function = ACK,
                         !.type = Response, !.expect_response = TRUE]

\* The handshake message StartDebugServer builds after accept.
AckMessage ==
    [EmptyMessage EXCEPT !.context_id = 0, !.function = ACK,
                         !.type = Response, !.expect_response = FALSE]

\* clientSock = accept(serverSock, ...), blocking until the debugger
\* connects; then the handshake message is built and Send is called.  A new
\* connection starts with empty streams and a debugger that owes nothing.
Start_accept(t) ==
    /\ alive /\ thread[t].pc = "Start_accept"
    /\ \E r \in (IF FdIs(serverSock, "listen") THEN NewFds ELSE {}) \cup {NoSock} :
         /\ clientSock' = r
         /\ IF r < 0
              THEN /\ thread' = [thread EXCEPT ![t] =
                                   Die(@, "Failed to accept client connection")]
                   /\ UNCHANGED <<fdState, wireOut, wireIn, peer>>
              ELSE /\ fdState' = [fdState EXCEPT ![r] = "conn"]
                   /\ wireOut' = <<>>
                   /\ wireIn' = <<>>
                   /\ peer' = NewPeer(t, peer.conns + 1)
                   /\ thread' = [thread EXCEPT ![t] =
                                   [@ EXCEPT !.msg = AckMessage, !.sret = "Start",
                                             !.pc = "Send_lock"]]
    /\ UNCHANGED <<serverSock, timeMode, capture, mutex, buffer, bufferSize,
                   alive>>

(* -------------------------------- Send --------------------------------- *)

\* pthread_mutex_lock(&mutex): whether thread t may take the mutex.
MutexFree(t) == mutex = 0

\* A Send that leaves the caller's context_id: what Send does not do.  The
\* stamping property must tell it from Stamp.
StampKeep(m, t) == m

\* set_context_id(pthread_self()): the identity Send stamps on the message.
Stamp(m, t) == [m EXCEPT !.context_id = t]

\* pthread_mutex_lock, then the stamping and serialisation of the message.
Send_lock(t) ==
    /\ alive /\ thread[t].pc = "Send_lock"
    /\ MutexFree(t)
    /\ mutex' = t
    /\ thread' = [thread EXCEPT ![t] =
                    [@ EXCEPT !.msg = Stamp(@, t), !.pc = "Send_hdr"]]
    /\ UNCHANGED <<serverSock, clientSock, timeMode, capture, buffer,
                   bufferSize, fdState, wireOut, wireIn, alive, peer>>

\* Send returns: into StartDebugServer, which returns to its caller, or into
\* MessageLoop.
AfterSend(th) ==
    IF th.sret = "Start" THEN ReturnToCaller(th)
                         ELSE [th EXCEPT !.pc = "ML_afterSend"]

\* What a send() or a recv(..., MSG_WAITALL) on descriptor fd does: it
\* transfers all the bytes asked for (a recv once they are there), or fewer
\* when the connection has broken, or it fails when fd is no connected
\* socket.
Transfer(fd) ==
    IF FdIs(fd, "conn") THEN "whole"
    ELSE IF FdIs(fd, "reset") \/ FdIs(fd, "eof") THEN "short" ELSE "error"

\* send(clientSock, &len, sizeof(len), 0) and the check of its result.
Send_hdr(t) ==
    /\ alive /\ thread[t].pc = "Send_hdr"
    /\ LET r == Transfer(clientSock) IN
         IF r = "whole"
           THEN /\ wireOut' = wireOut \o Htonl(Len(Serialize(thread[t].msg)))
                /\ thread' = [thread EXCEPT ![t].pc = "Send_pay"]
           ELSE /\ thread' = [thread EXCEPT ![t] =
                                Die(@, "Failed to send message length")]
                /\ UNCHANGED wireOut
    /\ UNCHANGED <<serverSock, clientSock, timeMode, capture, mutex, buffer,
                   bufferSize, fdState, wireIn, alive, peer>>

\* send(clientSock, str.c_str(), str.length(), 0), the check of its result,
\* and the expect_response test: unlock and return, or call Receive.
Send_pay(t) ==
    /\ alive /\ thread[t].pc = "Send_pay"
    /\ LET r == Transfer(clientSock) IN
         IF r = "whole"
           THEN /\ wireOut' = wireOut \o Serialize(thread[t].msg)
                /\ IF ~thread[t].msg.expect_response
                     THEN /\ mutex' = 0
                          /\ thread' = [thread EXCEPT ![t] =
                               AfterSend(Log(@, <<<<"send", @.msg.type>>>>))]
                     ELSE /\ thread' = [thread EXCEPT ![t] =
                               [Log(@, <<<<"send", @.msg.type>>, <<"recv", 0>>>>)
                                  EXCEPT !.pc = "Recv_hdr", !.rret = "Send"]]
                          /\ UNCHANGED mutex
           ELSE /\ thread' = [thread EXCEPT ![t] =
                                Die(@, "Failed to send message")]
                /\ UNCHANGED <<wireOut, mutex>>
    /\ UNCHANGED <<serverSock, clientSock, timeMode, capture, buffer,
                   bufferSize, fdState, wireIn, alive, peer>>

\* pthread_mutex_unlock after Receive, and the return.
Send_unlock(t) ==
    /\ alive /\ thread[t].pc = "Send_unlock"
    /\ mutex' = 0
    /\ thread' = [thread EXCEPT ![t] = AfterSend(@)]
    /\ UNCHANGED <<serverSock, clientSock, timeMode, capture, buffer,
                   bufferSize, fdState, wireOut, wireIn, alive, peer>>

(* ------------------------------- Receive ------------------------------- *)

\* Whether recv(fd, ., n, MSG_WAITALL) returns now: on a connection that
\* holds it waits until n bytes are there.
RecvReady(fd, n) == FdIs(fd, "conn") => Len(wireIn) >= n

\* What recv(fd, ., n, MSG_WAITALL) returns when it returns: n on a
\* connection that holds; what is left of the stream, up to n, when the
\* debugger has closed its end; nothing when the connection has broken; -1
\* when fd is no connected socket.
Received(fd, n) ==
    IF FdIs(fd, "conn") THEN n
    ELSE IF FdIs(fd, "eof") THEN Min(n, Len(wireIn))
    ELSE IF FdIs(fd, "reset") THEN 0 ELSE -1

\* A Receive that accepts any byte count: what Receive does not do.  The
\* length property must tell it from LengthMismatch.
LengthMismatchNever(want, received) == FALSE

\* The tests 4 != received and len != received.
LengthMismatch(want, received) == want # received

\* The four bytes of len after a recv that stored the bytes b into it: len
\* was 0 before.
LenBytes(b) == Take(b \o <<0, 0, 0, 0>>, HdrLen)

\* recv(clientSock, &len, 4, MSG_WAITALL), the checks of its result, ntohl,
\* and the growth of the static buffer.
Recv_hdr(t) ==
    /\ alive /\ thread[t].pc = "Recv_hdr"
    /\ RecvReady(clientSock, HdrLen)
    /\ LET received == Received(clientSock, HdrLen)
           len == Ntohl(LenBytes(Take(wireIn, Max(received, 0))))
       IN  IF received < 0
             THEN /\ thread' = [thread EXCEPT ![t] =
                       Die(@, "Failed to receive response length")]
                  /\ UNCHANGED <<wireIn, bufferSize>>
           ELSE IF LengthMismatch(HdrLen, received)
             THEN /\ thread' = [thread EXCEPT ![t] =
                       Die(@, "Received length mismatch, expected 4")]
                  /\ wireIn' = Drop(wireIn, received)
                  /\ UNCHANGED bufferSize
           ELSE /\ thread' = [thread EXCEPT ![t] =
                     [@ EXCEPT !.len = len, !.pc = "Recv_pay"]]
                /\ wireIn' = Drop(wireIn, received)
                /\ bufferSize' = Max(bufferSize, len)
    /\ UNCHANGED <<serverSock, clientSock, timeMode, capture, mutex, buffer,
                   fdState, wireOut, alive, peer>>

\* recv(clientSock, buffer, len, MSG_WAITALL) and the checks of its result.
\* The bytes land at the start of the buffer; what the buffer held beyond
\* them stays.
Recv_pay(t) ==
    /\ alive /\ thread[t].pc = "Recv_pay"
    /\ RecvReady(clientSock, thread[t].len)
    /\ LET received == Received(clientSock, thread[t].len) IN
         IF received < 0
           THEN /\ thread' = [thread EXCEPT ![t] =
                     Die(@, "Failed to receive response")]
                /\ UNCHANGED <<buffer, wireIn>>
         ELSE /\ buffer' = Take(wireIn, received) \o Drop(buffer, received)
              /\ wireIn' = Drop(wireIn, received)
              /\ thread' = [thread EXCEPT ![t] =
                   IF LengthMismatch(thread[t].len, received)
                     THEN Die(@, "Received length mismatch")
                     ELSE [@ EXCEPT !.pc = "Recv_parse"]]
    /\ UNCHANGED <<serverSock, clientSock, timeMode, capture, mutex,
                   bufferSize, fdState, wireOut, alive, peer>>

\* A decoder that reads all the buffer holds: what Receive does not do.
\* The buffer property must tell it from Decoded.
DecodedWhole(buf, len) == Parse(buf)

\* cmd.ParseFromArray(buffer, len): the message in the first len bytes.
Decoded(buf, len) == Parse(Take(buf, len))

\* cmd.Clear(); cmd.ParseFromArray(buffer, len); and the return to Send or
\* to MessageLoop's SETPROP case.
Recv_parse(t) ==
    /\ alive /\ thread[t].pc = "Recv_parse"
    /\ thread' = [thread EXCEPT ![t] =
         [@ EXCEPT !.cmd = Decoded(buffer, thread[t].len),
                   !.pc = IF thread[t].rret = "Send" THEN "Send_unlock" ELSE "ML_switch"]]
    /\ UNCHANGED <<globals, peer>>

(* ----------------------------- MessageLoop ----------------------------- *)

\* A message that never asks for a response: what MessageLoop does not
\* build.  The ordering property must tell it from CallMessage.
CallMessageNoReply(ty, fn, er) ==
    [EmptyMessage EXCEPT !.context_id = 0, !.type = ty,
                         !.expect_response = FALSE, !.function = fn]

\* The message MessageLoop announces a call with (type BeforeCall) or
\* reports its result with (type AfterCall).
CallMessage(ty, fn, er) ==
    [EmptyMessage EXCEPT !.context_id = 0, !.type = ty,
                         !.expect_response = er, !.function = fn]

\* A caller enters MessageLoop(functionCall, msg, expectResponse, function):
\* ret = 0, a fresh cmd, the BeforeCall message, and the call of Send.
MessageLoop(t, er, fn) ==
    /\ alive /\ thread[t].pc = "idle" /\ thread[t].left > 0
    /\ thread' = [thread EXCEPT ![t] =
            [@ EXCEPT !.expectResponse = er, !.function = fn,
                      !.msg = CallMessage(BeforeCall, fn, er),
                      !.left = @ - 1, !.ret = 0, !.cmd = EmptyMessage,
                      !.ev = <<<<"loop", BoolByte(er)>>>>,
                      !.sret = "Before", !.pc = "Send_lock"]]
    /\ UNCHANGED <<globals, peer>>

\* A loop that synthesizes CONTINUE after either frame: what MessageLoop
\* does not do.  The no-response property must tell it from Synthesized.
SynthesizedContinue(from) == CONTINUE

\* The directive MessageLoop puts into cmd itself when no response is
\* expected: CONTINUE after the BeforeCall frame, SKIP after the AfterCall
\* frame.
Synthesized(from) == IF from = "Before" THEN CONTINUE ELSE SKIP

\* Send has returned into MessageLoop: if (!expectResponse)
\* cmd.set_function(...), then on to the switch.
ML_afterSend(t) ==
    /\ alive /\ thread[t].pc = "ML_afterSend"
    /\ thread' = [thread EXCEPT ![t] =
         [@ EXCEPT !.cmd = IF ~thread[t].expectResponse
                             THEN [@ EXCEPT !.function =
                                     Synthesized(thread[t].sret)]
                             ELSE @,
                   !.pc = "ML_switch"]]
    /\ UNCHANGED <<globals, peer>>

\* A switch whose SETPROP case runs the call: what MessageLoop's switch does
\* not do.  The SETPROP property must tell it from Dispatch.
DispatchFallthrough(f) ==
    CASE f = CONTINUE -> "continue"
      [] f = SKIP     -> "skip"
      [] f = SETPROP  -> "continue"
      [] OTHER        -> "default"

\* A switch whose default case returns from the loop: what MessageLoop's
\* switch does not do.  The exit property must tell it from Dispatch.
DispatchDefaultReturns(f) ==
    CASE f = CONTINUE -> "continue"
      [] f = SKIP     -> "skip"
      [] f = SETPROP  -> "setprop"
      [] OTHER        -> "skip"

\* The case of the switch that cmd.function() selects.
Dispatch(f) ==
    CASE f = CONTINUE -> "continue"
      [] f = SKIP     -> "skip"
      [] f = SETPROP  -> "setprop"
      [] OTHER        -> "default"

\* A loop that keeps the pointer of its first invocation: what MessageLoop
\* does not do.  The return-value property must tell it from Assigned.
AssignedOnce(old, p) == IF old # 0 THEN old ELSE p

\* ret = functionCall(_c, msg): the value of ret after the assignment.
Assigned(old, p) == p

\* case CONTINUE: functionCall runs and returns some pointer, the AfterCall
\* message is built, and Send is called.
ML_Continue(t) ==
    /\ alive /\ thread[t].pc = "ML_switch"
    /\ Dispatch(thread[t].cmd.function) = "continue"
    /\ \E p \in Ptrs(thread[t].function) :
         thread' = [thread EXCEPT ![t] =
            [Log(@, <<<<"dir", @.cmd.function>>, <<"invoke", p>>>>)
               EXCEPT !.ret = Assigned(@, p),
                      !.msg = CallMessage(AfterCall, thread[t].function,
                                          thread[t].expectResponse),
                      !.sret = "After", !.pc = "Send_lock"]]
    /\ UNCHANGED <<globals, peer>>

\* A loop that always hands back the null pointer: what MessageLoop does
\* not do.  The directive property must tell it from Returned.
ReturnedNull(th) == 0

\* The value MessageLoop hands back at case SKIP.
Returned(th) == th.ret

\* case SKIP: return ret.
ML_Skip(t) ==
    /\ alive /\ thread[t].pc = "ML_switch"
    /\ Dispatch(thread[t].cmd.function) = "skip"
    /\ thread' = [thread EXCEPT ![t] =
         ReturnToCaller(Log(@, <<<<"dir", @.cmd.function>>,
                                 <<"ret", Returned(@)>>>>))]
    /\ UNCHANGED <<globals, peer>>

\* case SETPROP: SetProp(cmd) writes capture or timeMode (assert(0) on any
\* other property), then Receive(cmd) is called directly.
ML_SetProp(t) ==
    /\ alive /\ thread[t].pc = "ML_switch"
    /\ Dispatch(thread[t].cmd.function) = "setprop"
    /\ IF thread[t].cmd.prop \in {Prop_Capture, Prop_TimeMode}
         THEN /\ capture' = IF thread[t].cmd.prop = Prop_Capture
                              THEN thread[t].cmd.arg0 ELSE capture
              /\ timeMode' = IF thread[t].cmd.prop = Prop_TimeMode
                               THEN thread[t].cmd.arg0 ELSE timeMode
              /\ thread' = [thread EXCEPT ![t] =
                   [Log(@, <<<<"dir", @.cmd.function>>, <<"setprop", 0>>,
                            <<"recv", 0>>>>)
                      EXCEPT !.msg = EmptyMessage, !.rret = "Loop",
                             !.pc = "Recv_hdr"]]
         ELSE /\ thread' = [thread EXCEPT ![t] =
                   AssertFail(Log(@, <<<<"dir", @.cmd.function>>>>))]
              /\ UNCHANGED <<capture, timeMode>>
    /\ UNCHANGED <<serverSock, clientSock, mutex, buffer, bufferSize, fdState,
                   wireOut, wireIn, alive, peer>>

\* default: ASSERT(0).
ML_Default(t) ==
    /\ alive /\ thread[t].pc = "ML_switch"
    /\ Dispatch(thread[t].cmd.function) = "default"
    /\ thread' = [thread EXCEPT ![t] =
         AssertFail(Log(@, <<<<"dir", @.cmd.function>>>>))]
    /\ UNCHANGED <<globals, peer>>

(* ------------------------------ the debugger --------------------------- *)

\* Whether a whole frame is waiting in the stream s.
HasFrame(s) == Len(s) >= HdrLen /\ Len(s) >= HdrLen + Ntohl(Take(s, HdrLen))

\* The first frame's message, and the stream after it.
FirstMessage(s) == Parse(SubSeq(s, HdrLen + 1, HdrLen + Ntohl(Take(s, HdrLen))))
AfterFirst(s) == Drop(s, HdrLen + Ntohl(Take(s, HdrLen)))

\* The debugger reads one frame; a frame that expects a response puts its
\* context on the list of directives the debugger owes.
PeerRead ==
    /\ alive /\ FdIs(clientSock, "conn")
    /\ HasFrame(wireOut)
    /\ wireOut' = AfterFirst(wireOut)
    /\ peer' = [peer EXCEPT
                  !.owed = IF FirstMessage(wireOut).expect_response
                             THEN Append(@, FirstMessage(wireOut).context_id)
                             ELSE @,
                  !.read = TRUE,
                  !.first = IF peer.read THEN @ ELSE FirstMessage(wireOut)]
    /\ UNCHANGED <<serverSock, clientSock, timeMode, capture, mutex, buffer,
                   bufferSize, fdState, wireIn, alive, thread>>

\* A directive of the debugger for context c.
Directive(c, f, pr, a) ==
    [EmptyMessage EXCEPT !.context_id = c, !.function = f, !.type = Response,
                         !.prop = pr, !.arg0 = a]

\* The debugger answers the oldest request it owes a directive for with
\* CONTINUE or SKIP.
PeerDirective ==
    /\ alive /\ FdIs(clientSock, "conn")
    /\ peer.owed # <<>>
    /\ \E f \in {CONTINUE, SKIP} :
         /\ f = CONTINUE => peer.sent < MaxDirectives
         /\ wireIn' = wireIn \o Frame(Directive(Head(peer.owed), f, 0, 0))
         /\ peer' = [peer EXCEPT !.owed = Tail(@),
                                 !.sent = IF f = CONTINUE THEN @ + 1 ELSE @]
    /\ UNCHANGED <<serverSock, clientSock, timeMode, capture, mutex, buffer,
                   bufferSize, fdState, wireOut, alive, thread>>

\* The debugger answers with SETPROP; it still owes that context the
\* directive that follows.
PeerSetProp ==
    /\ alive /\ FdIs(clientSock, "conn")
    /\ peer.owed # <<>>
    /\ peer.sent < MaxDirectives
    /\ \E pr \in {Prop_Capture, Prop_TimeMode}, a \in Arg0s :
         wireIn' = wireIn \o Frame(Directive(Head(peer.owed), SETPROP, pr, a))
    /\ peer' = [peer EXCEPT !.sent = @ + 1]
    /\ UNCHANGED <<serverSock, clientSock, timeMode, capture, mutex, buffer,
                   bufferSize, fdState, wireOut, alive, thread>>

\* The debugger answers with a function tag that is no directive.
PeerBad ==
    /\ alive /\ FdIs(clientSock, "conn")
    /\ peer.owed # <<>>
    /\ peer.bad < MaxBad
    /\ \E f \in BadTags :
         wireIn' = wireIn \o Frame(Directive(Head(peer.owed), f, 0, 0))
    /\ peer' = [peer EXCEPT !.owed = Tail(@), !.bad = @ + 1]
    /\ UNCHANGED <<serverSock, clientSock, timeMode, capture, mutex, buffer,
                   bufferSize, fdState, wireOut, alive, thread>>

\* The debugger writes only the first k bytes of a directive and closes its
\* end: part of the length header, or the header and part of the payload.
PeerTruncate ==
    /\ alive /\ FdIs(clientSock, "conn")
    /\ peer.owed # <<>>
    /\ peer.bad < MaxBad
    /\ \E k \in {HdrLen - 2, HdrLen + 2} :
         wireIn' = wireIn \o Take(Frame(Directive(Head(peer.owed), SKIP, 0, 0)), k)
    /\ fdState' = [fdState EXCEPT ![clientSock] = "eof"]
    /\ peer' = [peer EXCEPT !.owed = <<>>, !.bad = @ + 1]
    /\ UNCHANGED <<serverSock, clientSock, timeMode, capture, mutex, buffer,
                   bufferSize, wireOut, alive, thread>>

\* The positions at which a thread is about to send or recv on clientSock.
TransferPcs == {"Send_hdr", "Send_pay", "Recv_hdr", "Recv_pay"}

\* The connection breaks: the debugger goes away or the network fails.  The
\* process learns of it at its next send or recv, so the break is taken
\* when a thread is about to make one.
LinkBreak ==
    /\ alive /\ FdIs(clientSock, "conn")
    /\ \E t \in Threads : thread[t].pc \in TransferPcs
    /\ fdState' = [fdState EXCEPT ![clientSock] = "reset"]
    /\ UNCHANGED <<serverSock, clientSock, timeMode, capture, mutex, buffer,
                   bufferSize, wireOut, wireIn, alive, thread, peer>>

(* ------------------------------ the system ----------------------------- *)

\* The steps of thread t inside Send, Receive, MessageLoop and Die.
Step(t) ==
    \/ Stop_client(t) \/ Stop_server(t) \/ Die_exit(t)
    \/ Send_lock(t) \/ Send_hdr(t) \/ Send_pay(t) \/ Send_unlock(t)
    \/ Recv_hdr(t) \/ Recv_pay(t) \/ Recv_parse(t)
    \/ ML_afterSend(t)
    \/ ML_Continue(t) \/ ML_Skip(t) \/ ML_SetProp(t) \/ ML_Default(t)

\* The steps of thread t inside StartDebugServer.
StartStep(t) ==
    \/ Start_socket(t) \/ Start_bind(t) \/ Start_listen(t) \/ Start_accept(t)

\* The calls a thread makes into the library.
Call(t) ==
    \/ StartDebugServer(t)
    \/ StopDebugServer(t)
    \/ \E er \in BOOLEAN, fn \in GLFuncs : MessageLoop(t, er, fn)

\* A debugger that keeps to the protocol.
Debugger == PeerRead \/ PeerDirective \/ PeerSetProp

\* The whole library, any debugger, a connection that may break.
Next ==
    \/ \E t \in Threads : Call(t) \/ StartStep(t) \/ Step(t)
    \/ Debugger \/ PeerBad \/ PeerTruncate \/ LinkBreak

Spec == Init /\ [][Next]_vars

\* The session after a successful StartDebugServer whose handshake frame the
\* debugger has read: both sockets open, both streams empty.  Every thread
\* is about to intercept calls.
InitConnected ==
    /\ serverSock = 3
    /\ clientSock = 4
    /\ fdState = [f \in FdPool |-> IF f = 3 THEN "listen"
                                    ELSE IF f = 4 THEN "conn" ELSE "free"]
    /\ timeMode = SYSTEM_TIME_THREAD
    /\ capture = 0
    /\ mutex = 0
    /\ buffer = <<>>
    /\ bufferSize = 0
    /\ wireOut = <<>>
    /\ wireIn = <<>>
    /\ alive = TRUE
    /\ thread = [t \in Threads |-> IdleThread(MaxLoopCalls, <<>>)]
    /\ peer = [NewPeer(Main, 1) EXCEPT !.read = TRUE,
                                    !.first = Stamp(AckMessage, Main)]

\* All threads intercept calls of one entry point on an established session;
\* the debugger keeps to the protocol.
Intercept ==
    \/ \E t \in Threads : (\E er \in BOOLEAN : MessageLoop(t, er, 0)) \/ Step(t)
    \/ Debugger

\* Intercepted calls on a connection that may break.
NextLoop == Intercept \/ LinkBreak

SpecLoop == InitConnected /\ [][NextLoop]_vars

\* Every thread takes its steps, and the debugger, which keeps to the
\* protocol, takes its own: the scheduler starves no thread, and the
\* connection holds.
Fairness ==
    /\ \A t \in Threads :
         WF_vars((\E er \in BOOLEAN : MessageLoop(t, er, 0)) \/ Step(t))
    /\ WF_vars(Debugger)

SpecLive == InitConnected /\ [][Intercept]_vars /\ Fairness

\* The process before any call of the library; every thread will start and
\* stop sessions.
InitSession ==
    /\ serverSock = NoSock
    /\ clientSock = NoSock
    /\ timeMode = SYSTEM_TIME_THREAD
    /\ capture = 0
    /\ mutex = 0
    /\ buffer = <<>>
    /\ bufferSize = 0
    /\ fdState = [f \in FdPool |-> "free"]
    /\ wireOut = <<>>
    /\ wireIn = <<>>
    /\ alive = TRUE
    /\ thread = [t \in Threads |-> IdleThread(MaxCalls, <<>>)]
    /\ peer = NewPeer(Main, 0)

\* The steps of thread t inside StartDebugServer, its handshake Send,
\* StopDebugServer and Die.
SessionStep(t) ==
    \/ StartStep(t)
    \/ Send_lock(t) \/ Send_hdr(t) \/ Send_pay(t)
    \/ Stop_client(t) \/ Stop_server(t) \/ Die_exit(t)

\* All threads start and stop sessions; the debugger reads what it is sent;
\* the connection may break.
NextSession ==
    \/ \E t \in Threads :
         StartDebugServer(t) \/ StopDebugServer(t) \/ SessionStep(t)
    \/ PeerRead \/ LinkBreak

SpecSession == InitSession /\ [][NextSession]_vars

(* ---------------------- vocabulary of the properties ------------------- *)

ReceivePcs == {"Recv_hdr", "Recv_pay", "Recv_parse"}

\* The positions at which a thread's next step is a system call on one of
\* the two sockets.
SocketPcs == TransferPcs \cup {"Start_bind", "Start_listen", "Start_accept"}

\* Thread t makes a system call on a socket in this step.
SocketOp(t) == thread[t].pc \in SocketPcs /\ thread'[t].pc # thread[t].pc

\* Thread t is inside Receive.
InReceive(t) == thread[t].pc \in ReceivePcs

\* Thread t has written the length header of a frame that expects a
\* response and has not yet read the whole reply.
MidExchange(t) ==
    /\ thread[t].msg.expect_response
    /\ \/ thread[t].pc = "Send_pay"
       \/ thread[t].pc \in {"Recv_hdr", "Recv_pay"} /\ thread[t].rret = "Send"

\* The events of kind k in the history e, and their values.
Events(e, k) == SelectSeq(e, LAMBDA x : x[1] = k)
Values(e, k) == [i \in 1 .. Len(Events(e, k)) |-> Events(e, k)[i][2]]

\* The history e is that of a call of MessageLoop with expectResponse = er.
IsLoop(e, er) == e # <<>> /\ e[1] = <<"loop", BoolByte(er)>>

\* The history e is that of a call of MessageLoop that has returned.
HasReturned(e) == e # <<>> /\ e[Len(e)][1] = "ret"

IsPrefix(a, b) == Len(a) <= Len(b) /\ a = SubSeq(b, 1, Len(a))

\* Thread t is on the fatal path: in Die's StopDebugServer, or about to exit.
Dying(t) ==
    /\ thread[t].pc \in {"Stop_client", "Stop_server", "Die_exit"}
    /\ thread[t].stopRet = "exit"

(* ------------------------------- claims -------------------------------- *)

\* C1.  At most one exchange in flight: while a thread is between writing
\* the length header of a frame that expects a response and reading the
\* last byte of the reply, no other thread sends or receives on the client
\* socket.
C1_OneInFlight ==
    [][\A t \in Threads, u \in Threads :
         (t # u /\ MidExchange(t)) => ~(thread[u].pc \in TransferPcs /\ SocketOp(u))]_vars

\* C2.  Every execution of Receive runs with the Send mutex held by the
\* calling thread, and no two threads are inside Receive together.
C2_ReceiveUnderMutex ==
    /\ \A t \in Threads : InReceive(t) => mutex = t
    /\ \A t \in Threads, u \in Threads :
         (InReceive(t) /\ InReceive(u)) => t = u

\* C3.  The message Receive hands to a thread inside Send is the debugger's
\* reply to that thread's own request: it carries that thread's context.
C3_OwnReply ==
    \A t \in Threads :
      thread[t].pc = "Send_unlock" => thread[t].cmd.context_id = t

\* C4.  No deadlock: with a debugger that keeps to the protocol and a fair
\* scheduler, every thread that is inside MessageLoop eventually returns
\* from it, and the Send mutex, once taken, is eventually free.
C4_NoDeadlock ==
    /\ \A t \in Threads : (thread[t].pc # "idle") ~> (thread[t].pc = "idle")
    /\ (mutex # 0) ~> (mutex = 0)

\* A call of MessageLoop without response, from entry to return, when
\* functionCall hands back p.
LoopTrace(p) ==
    <<<<"loop", 0>>, <<"send", BeforeCall>>, <<"dir", CONTINUE>>,
      <<"invoke", p>>, <<"send", AfterCall>>, <<"dir", SKIP>>, <<"ret", p>>>>

\* Every pointer functionCall may hand back.
AllPtrs == UNION {Ptrs(fn) : fn \in GLFuncs}

\* In the history e every SETPROP directive is followed by one write of a
\* property and one call of Receive and then by the next directive, with no
\* frame between; a property is written only for a SETPROP directive; and
\* functionCall runs only for a CONTINUE directive.
SetPropOrder(e) ==
    \A i \in 1 .. Len(e) :
      /\ e[i] = <<"dir", SETPROP>> =>
            /\ i + 2 <= Len(e)
            /\ e[i + 1][1] = "setprop"
            /\ e[i + 2] = <<"recv", 0>>
            /\ i + 3 <= Len(e) => e[i + 3][1] = "dir"
      /\ e[i][1] = "setprop" => (i > 1 /\ e[i - 1] = <<"dir", SETPROP>>)
      /\ e[i][1] = "invoke" => (i > 1 /\ e[i - 1] = <<"dir", CONTINUE>>)

\* Thread t is in the Receive that MessageLoop's SETPROP case calls.
InLoopReceive(t) == InReceive(t) /\ thread[t].rret = "Loop"

\* The history e is that of a call of StartDebugServer.
IsStart(e) == e # <<>> /\ e[1] = <<"start", 0>>

\* The messages Die gets from Send when a write is short or fails.
SendFailures == {"Failed to send message length", "Failed to send message"}

\* C5.  Directive state machine: a call of MessageLoop with expectResponse
\* that has returned after taking exactly the directives CONTINUE (for the
\* BeforeCall frame) and SKIP (for the AfterCall frame) has invoked
\* functionCall exactly once, and returned the pointer that invocation
\* returned.
C5_ContinueThenSkip ==
    \A t \in Threads :
      LET e == thread[t].ev IN
        (/\ IsLoop(e, TRUE) /\ HasReturned(e)
         /\ Values(e, "dir") = <<CONTINUE, SKIP>>)
          => /\ Len(Events(e, "invoke")) = 1
             /\ Values(e, "send") = <<BeforeCall, AfterCall>>
             /\ Values(e, "ret") = Values(e, "invoke")

\* C5 happens: such a call has returned a pointer that is not null.
C5_Witness ==
    \E t \in Threads :
      LET e == thread[t].ev IN
        /\ IsLoop(e, TRUE) /\ HasReturned(e)
        /\ Values(e, "dir") = <<CONTINUE, SKIP>>
        /\ Values(e, "ret") = <<7>>

\* C6.  SETPROP does not advance the call: each SETPROP directive a call
\* of MessageLoop takes writes one property (the one the directive names,
\* to the value it carries) and is followed only by a call of Receive, with
\* no frame sent before the next directive; and functionCall has run only
\* when a CONTINUE directive was taken.
C6_SetPropKeepsCall ==
    \A t \in Threads :
      /\ SetPropOrder(thread[t].ev)
      /\ Len(Events(thread[t].ev, "setprop"))
            = Len(SelectSeq(Values(thread[t].ev, "dir"), LAMBDA f : f = SETPROP))
      /\ InLoopReceive(t) =>
            /\ thread[t].cmd.prop = Prop_Capture => capture = thread[t].cmd.arg0
            /\ thread[t].cmd.prop = Prop_TimeMode => timeMode = thread[t].cmd.arg0

\* C6 happens: a call took SETPROP twice, once for each property, then
\* CONTINUE, and invoked functionCall; both properties hold the value the
\* debugger sent.
C6_Witness ==
    \E t \in Threads :
      LET e == thread[t].ev IN
        /\ IsPrefix(<<SETPROP, SETPROP, CONTINUE>>, Values(e, "dir"))
        /\ Len(Events(e, "setprop")) = 2
        /\ Len(Events(e, "invoke")) = 1
        /\ capture \in Arg0s /\ timeMode \in Arg0s

\* C7.  No-response synthesis: a call of MessageLoop without
\* expectResponse writes the BeforeCall frame, invokes functionCall once,
\* writes the AfterCall frame and returns what functionCall returned, in
\* that order and nothing else; it is never inside Receive; and until it has
\* returned its thread always has a step to take (it waits for nothing).
C7_NoResponse ==
    \A t \in Threads :
      IsLoop(thread[t].ev, FALSE) =>
        /\ \E p \in AllPtrs : IsPrefix(thread[t].ev, LoopTrace(p))
        /\ ~InReceive(t)
        /\ (alive /\ thread[t].pc # "idle") => ENABLED Step(t)

\* C7 happens: such a call has returned, with a pointer that is not null,
\* while the debugger has sent nothing.
C7_Witness ==
    \E t \in Threads : thread[t].pc = "idle" /\ thread[t].ev = LoopTrace(7)

\* C8 as the specification states it: the first frame the debugger reads
\* after the accept is ACK / Response / context_id 0 / no response expected,
\* and StartDebugServer never calls Receive.
C8_HandshakeZero ==
    /\ peer.read =>
          /\ peer.first.function = ACK /\ peer.first.type = Response
          /\ peer.first.context_id = 0 /\ ~peer.first.expect_response
    /\ \A t \in Threads :
          IsStart(thread[t].ev) =>
            (~InReceive(t) /\ Events(thread[t].ev, "recv") = <<>>)

\* C8.  Handshake: the first frame the debugger reads after the accept is
\* ACK / Response / no response expected, with the identity of the thread
\* that called StartDebugServer as its context_id; and StartDebugServer
\* never calls Receive.
C8_Handshake ==
    /\ peer.read =>
          /\ peer.first.function = ACK /\ peer.first.type = Response
          /\ peer.first.context_id = peer.by /\ ~peer.first.expect_response
    /\ \A t \in Threads :
          IsStart(thread[t].ev) =>
            (~InReceive(t) /\ Events(thread[t].ev, "recv") = <<>>)

\* C8 happens: StartDebugServer has returned and the debugger has read the
\* handshake frame.
C8_Witness ==
    /\ peer.read /\ clientSock >= 0
    /\ thread[peer.by].pc = "idle"
    /\ thread[peer.by].ev = <<<<"start", 0>>, <<"send", Response>>>>

\* C9.  Fatal teardown: once a thread whose write in Send was short or
\* failed has run StopDebugServer, both sockets are closed and absent, and
\* no thread makes a further system call on a socket.
C9_FatalTeardown ==
    [][(\E t \in Threads : /\ thread[t].pc = "Die_exit"
                            /\ thread[t].dieMsg \in SendFailures)
         => /\ serverSock = NoSock /\ clientSock = NoSock
            /\ \A f \in FdPool : fdState[f] = "free"
            /\ \A u \in Threads : ~SocketOp(u)]_vars

\* C10.  A directive that is none of CONTINUE, SKIP and SETPROP is fatal:
\* it is the last thing the call does (no invocation, no further turn of
\* the loop), the thread takes the path of Die, and when StopDebugServer has
\* run on that path both sockets are absent.
C10_UnknownDirectiveFatal ==
    \A t \in Threads :
      LET e == thread[t].ev IN
        (/\ e # <<>> /\ e[Len(e)][1] = "dir"
         /\ e[Len(e)][2] \notin {CONTINUE, SKIP, SETPROP})
          => /\ Dying(t)
             /\ thread[t].pc = "Die_exit" =>
                   (serverSock = NoSock /\ clientSock = NoSock)

\* The messages Die gets from Receive.
RecvFailures ==
    {"Failed to receive response length", "Received length mismatch, expected 4",
     "Failed to receive response", "Received length mismatch"}

\* Thread t, in a call of MessageLoop with expectResponse, holds in cmd what
\* its last call of Receive delivered.
HoldsDelivered(t) ==
    /\ thread[t].expectResponse
    /\ thread[t].pc \in {"Send_unlock", "ML_afterSend", "ML_switch"}

\* C11.  Length honesty: a message Receive has delivered is a whole
\* directive of the debugger, decoded from exactly as many bytes as its
\* header declared, all of them read; and a thread whose Receive got too few
\* bytes (or a failed read) is on the fatal path with what it received last
\* never dispatched and its cmd as it was before that Receive: untouched,
\* or the whole directive its switch took last.
C11_LengthHonest ==
    \A t \in Threads :
      /\ HoldsDelivered(t) =>
            /\ thread[t].cmd.type = Response /\ thread[t].cmd.context_id = t
            /\ thread[t].len = Len(Serialize(thread[t].cmd))
      /\ thread[t].pc = "Recv_parse" => Len(buffer) >= thread[t].len
      /\ thread[t].dieMsg \in RecvFailures =>
            /\ Dying(t)
            /\ thread[t].ev[Len(thread[t].ev)] = <<"recv", 0>>
            /\ LET d == Values(thread[t].ev, "dir") IN
                 IF d = <<>> THEN thread[t].cmd = EmptyMessage
                 ELSE /\ thread[t].cmd.function = d[Len(d)]
                      /\ thread[t].cmd.type = Response
                      /\ thread[t].cmd.context_id = t

\* C11 happens: the debugger closed its end after the header and two bytes
\* of a four-byte payload; the two bytes are in the buffer, the thread is on
\* the fatal path and its cmd is untouched.
C11_Witness ==
    \E t \in Threads :
      /\ Dying(t) /\ thread[t].dieMsg = "Received length mismatch"
      /\ thread[t].len = 4 /\ Len(buffer) = 2
      /\ thread[t].cmd = EmptyMessage

\* The history e is that of a call of MessageLoop.
IsLoopCall(e) == e # <<>> /\ e[1][1] = "loop"

\* C12.  A thread that has entered MessageLoop is back with its caller
\* only after its switch took a SKIP directive, and the return is the last
\* thing the call does; a thread that is in MessageLoop and has taken any
\* other directives has not returned.
C12_LeavesBySkip ==
    \A t \in Threads :
      LET e == thread[t].ev IN
        IsLoopCall(e) =>
          /\ thread[t].pc = "idle" =>
                /\ HasReturned(e)
                /\ e[Len(e) - 1] = <<"dir", SKIP>>
          /\ \A i \in 1 .. Len(e) :
                e[i][1] = "ret" => (i = Len(e) /\ thread[t].pc = "idle")

\* C12 happens: a call has returned at SKIP after as many turns of the loop
\* as the debugger had directives to send, none of which made it return.
C12_Witness ==
    \E t \in Threads :
      LET e == thread[t].ev IN
        /\ IsLoop(e, TRUE) /\ HasReturned(e)
        /\ Len(Values(e, "dir")) = MaxDirectives + 1
        /\ \A i \in 1 .. MaxDirectives : Values(e, "dir")[i] # SKIP

\* The history e is that of a call of StopDebugServer by the library's user.
IsStop(e) == e # <<>> /\ e[1] = <<"stop", 0>>

\* C13.  After StopDebugServer has returned to its caller both descriptors
\* are absent and no socket of the session is open, whatever descriptors
\* the sockets were.
C13_StopReleasesBoth ==
    \A t \in Threads :
      (IsStop(thread[t].ev) /\ thread[t].pc = "idle")
        => /\ serverSock = NoSock /\ clientSock = NoSock
           /\ \A f \in FdPool : fdState[f] = "free"

\* Thread t calls StartDebugServer in this step.
CallsStart(t) ==
    /\ thread[t].pc = "idle" /\ thread'[t].left < thread[t].left
    /\ thread'[t].ev = <<<<"start", 0>>>>

\* C14.  StartDebugServer is a no-op when the session is started: a call
\* made while the listening socket is present returns at once, and changes
\* neither serverSock nor clientSock nor any socket, stream or other global
\* of the session; no thread is inside bind, listen, accept or the
\* handshake's Send because of it.
C14_StartNoOp ==
    [][\A t \in Threads :
         (CallsStart(t) /\ serverSock >= 0)
           => /\ thread'[t].pc = "idle"
              /\ globals' = globals /\ peer' = peer]_vars

\* C14 happens: a call of StartDebugServer has returned without a frame
\* sent, on a session whose listening socket is descriptor 0.
C14_Witness ==
    \E t \in Threads :
      /\ thread[t].pc = "idle" /\ thread[t].ev = <<<<"start", 0>>>>
      /\ serverSock = 0 /\ clientSock > 0

\* C15.  One client connection per process lifetime: however the threads
\* call StartDebugServer and StopDebugServer, the process accepts at most
\* one connection.
C15_OneConnection == peer.conns <= 1

\* In the history e of a call of MessageLoop the BeforeCall frame comes
\* first and once; every CONTINUE directive is followed by one invocation
\* and then (unless the write fails) by one AfterCall frame; and there is no
\* invocation and no AfterCall frame but these.
OrderedCall(e) ==
    /\ Len(e) >= 2 => e[2] = <<"send", BeforeCall>>
    /\ \A i \in 1 .. Len(e) :
         /\ e[i] = <<"send", BeforeCall>> => i = 2
         /\ e[i] = <<"dir", CONTINUE>> =>
               /\ i + 1 <= Len(e) /\ e[i + 1][1] = "invoke"
               /\ i + 2 <= Len(e) => e[i + 2] = <<"send", AfterCall>>
         /\ e[i][1] = "invoke" => (i > 2 /\ e[i - 1] = <<"dir", CONTINUE>>)
         /\ e[i] = <<"send", AfterCall>> => (i > 3 /\ e[i - 1][1] = "invoke")

\* Thread t is inside Send with the message msg, or in the Receive that Send
\* called.
InSend(t) ==
    \/ thread[t].pc \in {"Send_lock", "Send_hdr", "Send_pay", "Send_unlock"}
    \/ InReceive(t) /\ thread[t].rret = "Send"

\* C16.  Per intercepted call: the BeforeCall frame is written before any
\* invocation; every CONTINUE directive taken causes one invocation, followed
\* by one AfterCall frame; both frames carry the function tag and the
\* expect_response policy the call was made with; and a call with
\* expectResponse that has returned has invoked functionCall once per
\* CONTINUE directive the debugger sent for it.
C16_CallOrder ==
    \A t \in Threads :
      LET e == thread[t].ev IN
        IsLoopCall(e) =>
          /\ OrderedCall(e)
          /\ InSend(t) =>
                /\ thread[t].msg.function = thread[t].function
                /\ thread[t].msg.expect_response = thread[t].expectResponse
                /\ thread[t].msg.type =
                     (IF thread[t].sret = "Before" THEN BeforeCall ELSE AfterCall)
          /\ (/\ IsLoop(e, TRUE) /\ HasReturned(e)
              /\ peer.conns = 1 /\ thread[t].left = MaxCalls - 2)
               => Len(Events(e, "invoke")) + Len(Events(e, "setprop")) = peer.sent

\* C16 happens: a call with expectResponse took CONTINUE twice, invoked
\* functionCall twice, wrote the BeforeCall frame and two AfterCall frames,
\* and returned.
C16_Witness ==
    \E t \in Threads :
      LET e == thread[t].ev IN
        /\ IsLoop(e, TRUE) /\ HasReturned(e)
        /\ Values(e, "dir") = <<CONTINUE, CONTINUE, SKIP>>
        /\ Values(e, "send") = <<BeforeCall, AfterCall, AfterCall>>
        /\ Len(Events(e, "invoke")) = 2

\* Thread t writes the payload of a frame in this step.
WritesPayload(t) ==
    /\ thread[t].pc = "Send_pay" /\ Len(wireOut') > Len(wireOut)

\* C17.  Every frame Send writes carries the identity of the thread that
\* called Send as its context_id: the payload bytes a thread appends to the
\* stream decode to a message with that context_id (and with the function
\* and type the caller asked for), though the caller had set context_id 0.
C17_StampedFrames ==
    [][\A t \in Threads :
         WritesPayload(t) =>
           LET m == Parse(Drop(wireOut', Len(wireOut))) IN
             /\ wireOut' = wireOut \o Serialize(m)
             /\ m.context_id = t /\ m.context_id # 0
             /\ m.function = thread[t].msg.function
             /\ m.type = thread[t].msg.type
             /\ m.type = Response => m = Stamp(AckMessage, t)
             /\ m.type # Response =>
                   m = Stamp(CallMessage(m.type, thread[t].function,
                                         thread[t].expectResponse), t)]_vars

\* C17 happens: the debugger has read the handshake frame and a BeforeCall
\* frame, and owes the calling thread, by the context_id of that frame, a
\* directive.
C17_Witness ==
    /\ peer.read /\ peer.first.context_id = peer.by
    /\ peer.owed = <<peer.by>>
    /\ thread[peer.by].pc = "Recv_hdr"

\* C18.  A call of MessageLoop that has returned without having invoked
\* functionCall returned the null pointer; one that has invoked it returned
\* the pointer of its most recent invocation, whatever SETPROP directives
\* came between.
C18_ReturnsLastPointer ==
    \A t \in Threads :
      LET e == thread[t].ev
          p == Values(e, "invoke")
      IN  (IsLoopCall(e) /\ HasReturned(e)) =>
            Values(e, "ret") = <<IF p = <<>> THEN 0 ELSE p[Len(p)]>>

\* C18 happens: a call invoked functionCall twice, with a SETPROP directive
\* between, got the null pointer first and another pointer then, and
\* returned the second.
C18_Witness ==
    \E t \in Threads :
      LET e == thread[t].ev IN
        /\ IsLoop(e, TRUE) /\ HasReturned(e)
        /\ Values(e, "dir") = <<CONTINUE, SETPROP, CONTINUE, SKIP>>
        /\ Values(e, "invoke") = <<0, 7>>
        /\ Values(e, "ret") = <<7>>

\* Thread t returns from StartDebugServer to its caller in this step.
StartReturns(t) ==
    /\ thread'[t].pc = "idle" /\ thread'[t] # thread[t]
    /\ IsStart(thread'[t].ev)

\* C19.  Whenever StartDebugServer returns to its caller, clientSock holds
\* the descriptor of an accepted connection, on which the handshake frame
\* has been written.
C19_StartedMeansConnected ==
    [][\A t \in Threads :
         StartReturns(t) =>
           /\ clientSock' # NoSock
           /\ fdState'[clientSock'] \in {"conn", "reset", "eof"}
           /\ peer'.conns >= 1]_vars

\* The capacity of the receive buffer holds what was read into it, and the
\* frame a thread is reading; a message that Receive delivered has no field
\* from beyond its declared length: one that is no SETPROP directive has
\* the default prop and arg0, whatever the buffer holds behind it.
BufferHolds ==
    /\ Len(buffer) <= bufferSize
    /\ \A t \in Threads :
         /\ thread[t].pc \in {"Recv_pay", "Recv_parse"} =>
               bufferSize >= thread[t].len
         /\ HoldsDelivered(t) =>
               /\ bufferSize >= thread[t].len
               /\ thread[t].cmd = Parse(Serialize(thread[t].cmd))
               /\ thread[t].cmd.function # SETPROP =>
                     (thread[t].cmd.prop = 0 /\ thread[t].cmd.arg0 = 0)

\* The capacity in the next state is the larger of the capacity and the
\* length a thread's Receive has just read from a header.
BufferGrows ==
    /\ bufferSize' >= bufferSize
    /\ \A t \in Threads :
         (thread[t].pc = "Recv_hdr" /\ thread'[t].pc = "Recv_pay")
           => bufferSize' = (IF thread'[t].len > bufferSize
                               THEN thread'[t].len ELSE bufferSize)
    /\ (\A t \in Threads : thread[t].pc # "Recv_hdr") => bufferSize' = bufferSize

\* C20.  The capacity of the shared receive buffer never decreases; after
\* a header is read it is the larger of what it was and the declared
\* length, so at least the length of the frame being read; and the message
\* handed to the caller is decoded from the first declared-length bytes of
\* the buffer only, never from bytes an earlier, longer frame left behind.
C20_BufferReuse == []BufferHolds /\ [][BufferGrows]_vars

\* C20 happens: after a six-byte SETPROP frame a thread holds a four-byte
\* directive it was delivered; the buffer still has capacity six and holds
\* the arg0 of the SETPROP frame in its sixth byte, and the directive's arg0
\* is the default.
C20_Witness ==
    \E t \in Threads :
      /\ HoldsDelivered(t) /\ thread[t].len = 4
      /\ bufferSize = 6 /\ Len(buffer) = 6 /\ buffer[6] = 1
      /\ thread[t].cmd.function \in {CONTINUE, SKIP} /\ thread[t].cmd.arg0 = 0
====
